---- MODULE Spec2Model ----
(***************************************************************************)
(* Model of setup.py: the config.yml generator.                            *)
(*                                                                         *)
(* Page texts and operator input lines are sequences of tokens.  A token   *)
(* is one character, except for the three words the program's patterns and *)
(* the JSON grammar treat as units: INNERTUBE_API_KEY, ytcfg.set and null. *)
(* Python values are tagged records: [t |-> "none"], [t |-> "str", v],     *)
(* [t |-> "num", v] and [t |-> "dict", v] (v a sequence of <<key, value>>).*)
(***************************************************************************)
EXTENDS Integers, Sequences, FiniteSets, TLC

Q   == "\""
BS  == "\\"
KEY == "INNERTUBE_API_KEY"
YT  == "ytcfg.set"

\* characters matched by \s, stripped by str.strip() and skipped by json
Whitespace == {" ", "\n"}

None      == [t |-> "none"]
Str(s)    == [t |-> "str", v |-> s]
Num(n)    == [t |-> "num", v |-> n]
Dict(ps)  == [t |-> "dict", v |-> ps]

\* Python truth value of an object: `if key:`
Truthy(x) ==
    CASE x.t = "none" -> FALSE
      [] x.t = "str"  -> Len(x.v) > 0
      [] x.t = "num"  -> x.v # 0
      [] x.t = "dict" -> Len(x.v) > 0

At(t, i) == IF i >= 1 /\ i <= Len(t) THEN t[i] ELSE "<eof>"

Slice(t, a, b) == IF b < a THEN <<>> ELSE SubSeq(t, a, b)

\* \s* : the first position at or after i that holds no whitespace
RECURSIVE SkipWs(_, _)
SkipWs(t, i) == IF At(t, i) \in Whitespace THEN SkipWs(t, i + 1) ELSE i

\* [^"]+ is greedy: the first position at or after i that holds a quote,
\* or Len(t)+1 when there is none
RECURSIVE NextQuote(_, _)
NextQuote(t, i) ==
    IF i > Len(t) \/ t[i] = Q THEN i ELSE NextQuote(t, i + 1)

\* "<key>"\s*:\s*"([^"]+)" anchored at position i; the captured group or
\* "nomatch"
DirectMatchAt(key, t, i) ==
    IF At(t, i) = Q /\ At(t, i + 1) = key /\ At(t, i + 2) = Q
    THEN LET c == SkipWs(t, i + 3) IN
         IF At(t, c) = ":"
         THEN LET o == SkipWs(t, c + 1) IN
              IF At(t, o) = Q
              THEN LET e == NextQuote(t, o + 1) IN
                   IF e > o + 1 /\ e <= Len(t)
                   THEN [m |-> TRUE, g |-> Slice(t, o + 1, e - 1)]
                   ELSE [m |-> FALSE]
              ELSE [m |-> FALSE]
         ELSE [m |-> FALSE]
    ELSE [m |-> FALSE]

\* re.search: the leftmost position where the pattern matches
RECURSIVE DirectSearch(_, _, _)
DirectSearch(key, t, i) ==
    IF i > Len(t) THEN [m |-> FALSE]
    ELSE LET r == DirectMatchAt(key, t, i) IN
         IF r.m THEN r ELSE DirectSearch(key, t, i + 1)

extract_string(key, text) ==
    LET m == DirectSearch(key, text, 1) IN
    IF m.m THEN Str(m.g) ELSE None

\* }\s*\)\s*; anchored at position k
CloseAt(t, k) ==
    /\ At(t, k) = "}"
    /\ LET p == SkipWs(t, k + 1) IN
       /\ At(t, p) = ")"
       /\ At(t, SkipWs(t, p + 1)) = ";"

\* .+? is lazy: the first k >= from that closes the construct
RECURSIVE FirstClose(_, _)
FirstClose(t, k) ==
    IF k > Len(t) THEN 0
    ELSE IF CloseAt(t, k) THEN k ELSE FirstClose(t, k + 1)

\* ytcfg\.set\(\s*({.+?})\s*\)\s*; anchored at position i
YtcfgMatchAt(t, i) ==
    IF At(t, i) = YT /\ At(t, i + 1) = "("
    THEN LET b == SkipWs(t, i + 2) IN
         IF At(t, b) = "{"
         THEN LET k == FirstClose(t, b + 2) IN
              IF k > 0 THEN [m |-> TRUE, g |-> Slice(t, b, k)]
              ELSE [m |-> FALSE]
         ELSE [m |-> FALSE]
    ELSE [m |-> FALSE]

RECURSIVE YtcfgSearch(_, _)
YtcfgSearch(t, i) ==
    IF i > Len(t) THEN [m |-> FALSE]
    ELSE LET r == YtcfgMatchAt(t, i) IN
         IF r.m THEN r ELSE YtcfgSearch(t, i + 1)

(***************************************************************************)
(* json.loads on a token sequence.  Every parser returns [ok, pos, val]:   *)
(* pos is the position after the value.                                    *)
(***************************************************************************)
Fail == [ok |-> FALSE, pos |-> 0, val |-> None]
Ok(p, v) == [ok |-> TRUE, pos |-> p, val |-> v]

Digits == {"0", "1", "2", "3", "4", "5", "6", "7", "8", "9"}
DigitVal(c) ==
    CASE c = "0" -> 0 [] c = "1" -> 1 [] c = "2" -> 2 [] c = "3" -> 3
      [] c = "4" -> 4 [] c = "5" -> 5 [] c = "6" -> 6 [] c = "7" -> 7
      [] c = "8" -> 8 [] c = "9" -> 9

\* the body of a string after its opening quote; acc is the decoded text
RECURSIVE ScanString(_, _, _)
ScanString(t, j, acc) ==
    IF j > Len(t) THEN Fail
    ELSE IF t[j] = Q THEN Ok(j + 1, Str(acc))
    ELSE IF t[j] = BS
         THEN IF At(t, j + 1) \in {Q, BS}
              THEN ScanString(t, j + 2, Append(acc, t[j + 1]))
              ELSE Fail
    ELSE IF t[j] = "\n" THEN Fail
    ELSE ScanString(t, j + 1, Append(acc, t[j]))

RECURSIVE ScanDigits(_, _, _)
ScanDigits(t, j, n) ==
    IF At(t, j) \in Digits THEN ScanDigits(t, j + 1, 10 * n + DigitVal(t[j]))
    ELSE Ok(j, Num(n))

RECURSIVE ParseValue(_, _)
RECURSIVE ParseMembers(_, _, _)

ParseObject(t, i) ==
    LET j == SkipWs(t, i + 1) IN
    IF At(t, j) = "}" THEN Ok(j + 1, Dict(<<>>))
    ELSE ParseMembers(t, j, <<>>)

\* one "key" : value pair at position j, then , or }
ParseMembers(t, j, acc) ==
    IF At(t, j) # Q THEN Fail
    ELSE LET k == ScanString(t, j + 1, <<>>) IN
         IF ~k.ok THEN Fail
         ELSE LET c == SkipWs(t, k.pos) IN
              IF At(t, c) # ":" THEN Fail
              ELSE LET v == ParseValue(t, SkipWs(t, c + 1)) IN
                   IF ~v.ok THEN Fail
                   ELSE LET e   == SkipWs(t, v.pos)
                            all == Append(acc, <<k.val.v, v.val>>)
                        IN IF At(t, e) = "}" THEN Ok(e + 1, Dict(all))
                           ELSE IF At(t, e) = ","
                                THEN ParseMembers(t, SkipWs(t, e + 1), all)
                                ELSE Fail

ParseValue(t, i) ==
    CASE At(t, i) = Q      -> ScanString(t, i + 1, <<>>)
      [] At(t, i) = "{"    -> ParseObject(t, i)
      [] At(t, i) = "null" -> Ok(i + 1, None)
      [] At(t, i) = "0"    -> Ok(i + 1, Num(0))
      [] At(t, i) \in Digits \ {"0"} -> ScanDigits(t, i, 0)
      [] OTHER             -> Fail

\* json.loads: [ok |-> FALSE] stands for the raised JSONDecodeError
json_loads(s) ==
    LET v == ParseValue(s, SkipWs(s, 1)) IN
    IF v.ok /\ SkipWs(s, v.pos) = Len(s) + 1
    THEN [ok |-> TRUE, val |-> v.val]
    ELSE [ok |-> FALSE, val |-> None]

\* dict.get(key): the value of the last pair with that key, else None
RECURSIVE DictGet(_, _, _)
DictGet(ps, key, i) ==
    IF i = 0 THEN None
    ELSE IF ps[i][1] = key THEN ps[i][2] ELSE DictGet(ps, key, i - 1)

\* the outcome of a call: the value returned or an exception raised, and
\* which parts of the second strategy ran (the ytcfg scan, json.loads)
Returned(v, scan, parse) ==
    [raised |-> FALSE, value |-> v, scanned |-> scan, parsed |-> parse]
Raises(scan, parse) ==
    [raised |-> TRUE, value |-> None, scanned |-> scan, parsed |-> parse]

\* the embedded-object strategy tried before the direct literal
extract_json_first(html) ==
    LET m == YtcfgSearch(html, 1) IN
    IF m.m /\ json_loads(m.g).ok
          /\ Truthy(DictGet(json_loads(m.g).val.v, <<KEY>>,
                            Len(json_loads(m.g).val.v)))
    THEN Returned(DictGet(json_loads(m.g).val.v, <<KEY>>,
                          Len(json_loads(m.g).val.v)), TRUE, TRUE)
    ELSE LET key == extract_string(KEY, html) IN
         IF Truthy(key) THEN Returned(key, TRUE, m.m) ELSE Returned(None, TRUE, m.m)

\* json.loads outside any try
extract_unguarded(html) ==
    LET key == extract_string(KEY, html) IN
    IF Truthy(key) THEN Returned(key, FALSE, FALSE)
    ELSE LET m == YtcfgSearch(html, 1) IN
         IF m.m
         THEN LET cfg == json_loads(m.g) IN
              IF cfg.ok
              THEN Returned(DictGet(cfg.val.v, <<KEY>>, Len(cfg.val.v)),
                            TRUE, TRUE)
              ELSE Raises(TRUE, TRUE)
         ELSE Returned(None, TRUE, FALSE)

extract_innertube_api_key(html) ==
    LET key == extract_string(KEY, html) IN
    IF Truthy(key) THEN Returned(key, FALSE, FALSE)
    ELSE LET m == YtcfgSearch(html, 1) IN
         IF m.m
         THEN LET cfg == json_loads(m.g) IN
              IF cfg.ok
              THEN Returned(DictGet(cfg.val.v, <<KEY>>, Len(cfg.val.v)),
                            TRUE, TRUE)
              ELSE Returned(None, TRUE, TRUE)
         ELSE Returned(None, TRUE, FALSE)

(***************************************************************************)
(* Page texts: every concatenation of at most MaxFrags fragments.          *)
(***************************************************************************)
MaxFrags == 3

Fragments ==
    { <<Q, KEY, Q, ":", Q, "a", Q>>,
      <<Q, KEY, Q, " ", ":", "\n", Q, "z", Q>>,
      <<Q, KEY, Q, ":", Q, "a", BS, Q, "z", Q>>,
      <<Q, KEY, Q, ":", Q, Q>>,
      <<Q, KEY, Q, ":", "1">>,
      <<YT, "(", "{">>,
      <<"}", ")", ";">>,
      <<YT, "(", " ", "{", Q, KEY, Q, ":", "1", "}", " ", ")", ";">>,
      <<Q, "a", Q, ":", "null", ",">>,
      <<"a">>,
      <<" ">>,
      <<Q>> }

RECURSIVE TextsOf(_)
TextsOf(n) ==
    IF n = 0 THEN {<<>>}
    ELSE LET prev == TextsOf(n - 1) IN
         prev \cup {p \o f : p \in prev, f \in Fragments}

Texts == TextsOf(MaxFrags)

(***************************************************************************)
(* Operator input: str.strip, str.split(",") and int() on token sequences. *)
(***************************************************************************)
RECURSIVE LStrip(_)
LStrip(s) == IF s # <<>> /\ Head(s) \in Whitespace THEN LStrip(Tail(s)) ELSE s

RECURSIVE RStrip(_)
RStrip(s) ==
    IF s # <<>> /\ s[Len(s)] \in Whitespace
    THEN RStrip(SubSeq(s, 1, Len(s) - 1)) ELSE s

strip(s) == RStrip(LStrip(s))

\* s.split(","): the fields between the commas, empty fields included
RECURSIVE SplitFrom(_, _, _, _)
SplitFrom(s, i, cur, acc) ==
    IF i > Len(s) THEN Append(acc, cur)
    ELSE IF s[i] = "," THEN SplitFrom(s, i + 1, <<>>, Append(acc, cur))
    ELSE SplitFrom(s, i + 1, Append(cur, s[i]), acc)

split(s) == SplitFrom(s, 1, <<>>, <<>>)

\* the digits of an int() literal: digits, single underscores between them
RECURSIVE IntDigits(_, _, _, _)
IntDigits(s, i, n, afterDigit) ==
    IF i > Len(s)
    THEN IF afterDigit THEN [ok |-> TRUE, val |-> n] ELSE [ok |-> FALSE, val |-> 0]
    ELSE IF s[i] \in Digits
         THEN IntDigits(s, i + 1, 10 * n + DigitVal(s[i]), TRUE)
    ELSE IF s[i] = "_" /\ afterDigit THEN IntDigits(s, i + 1, n, FALSE)
    ELSE [ok |-> FALSE, val |-> 0]

\* int(value): [ok |-> FALSE] stands for the raised ValueError
int(value) ==
    LET v    == strip(value)
        neg  == v # <<>> /\ Head(v) = "-"
        body == IF v # <<>> /\ Head(v) \in {"+", "-"} THEN Tail(v) ELSE v
        d    == IntDigits(body, 1, 0, FALSE)
    IN IF d.ok THEN [ok |-> TRUE, val |-> IF neg THEN 0 - d.val ELSE d.val]
       ELSE [ok |-> FALSE, val |-> 0]

DefaultPort == 2823
MinPort     == 1
MaxPort     == 65535

\* the range test written 0 <= port
port_attempt_from_zero(line) ==
    LET value == strip(line) IN
    IF value = <<>> THEN [ret |-> TRUE, port |-> DefaultPort, msg |-> {}]
    ELSE LET p == int(value) IN
         IF p.ok
         THEN IF 0 <= p.val /\ p.val <= MaxPort
              THEN [ret |-> TRUE, port |-> p.val, msg |-> {}]
              ELSE [ret |-> FALSE, port |-> 0, msg |-> {"port_range"}]
         ELSE [ret |-> FALSE, port |-> 0, msg |-> {"port_number"}]

\* one pass of the loop of ask_for_port on the line the operator typed
port_attempt(line) ==
    LET value == strip(line) IN
    IF value = <<>> THEN [ret |-> TRUE, port |-> DefaultPort, msg |-> {}]
    ELSE LET p == int(value) IN
         IF p.ok
         THEN IF MinPort <= p.val /\ p.val <= MaxPort
              THEN [ret |-> TRUE, port |-> p.val, msg |-> {}]
              ELSE [ret |-> FALSE, port |-> 0, msg |-> {"port_range"}]
         ELSE [ret |-> FALSE, port |-> 0, msg |-> {"port_number"}]

ask_for_main_url(line) == strip(line)

\* [k.strip() for k in fields if k.strip()]
RECURSIVE StripKeep(_, _)
StripKeep(fields, i) ==
    IF i > Len(fields) THEN <<>>
    ELSE IF strip(fields[i]) # <<>>
         THEN <<strip(fields[i])>> \o StripKeep(fields, i + 1)
         ELSE StripKeep(fields, i + 1)

\* the entries stripped but the blank ones kept
ask_for_api_keys_unfiltered(line) ==
    LET value == strip(line) IN
    IF value = <<>> THEN [keys |-> <<>>, msg |-> {"keys_hint", "keys_empty"}]
    ELSE LET fields == split(value)
             keys   == [n \in 1..Len(fields) |-> strip(fields[n])]
         IN [keys |-> keys, msg |-> {"keys_hint", "keys_added"}]

ask_for_api_keys(line) ==
    LET value == strip(line) IN
    IF value = <<>> THEN [keys |-> <<>>, msg |-> {"keys_hint", "keys_empty"}]
    ELSE LET keys == StripKeep(split(value), 1) IN
         IF keys = <<>> THEN [keys |-> <<>>, msg |-> {"keys_hint", "keys_none"}]
         ELSE [keys |-> keys, msg |-> {"keys_hint", "keys_added"}]

(***************************************************************************)
(* get_fresh_innertube_key                                                 *)
(***************************************************************************)
\* the site root tried before the tv page
urls_to_try_root_first == <<"root", "tv", "embed">>

urls_to_try == <<"tv", "root", "embed">>

StatusOK == 200

\* the pages a source may serve
Pages ==
    { <<Q, KEY, Q, ":", Q, "a", Q>>,
      <<YT, "(", "{", Q, KEY, Q, ":", Q, "z", Q, "}", ")", ";">>,
      <<YT, "(", "{", Q, KEY, Q, ":", "1", "}", ")", ";">>,
      <<YT, "(", "{", Q, KEY, Q, ":", Q, Q, "}", ")", ";">>,
      <<YT, "(", "{", "a", "}", ")", ";">>,
      <<"a">> }

\* extract_innertube_api_key(r.text) for each page
PageExtract == [p \in Pages |-> extract_innertube_api_key(p)]

Fault           == [kind |-> "fault", status |-> 0, text |-> <<>>]
Response(st, b) == [kind |-> "response", status |-> st, text |-> b]

\* what requests.get can do: raise, or answer with a status and a body
Responses ==
    { Fault, Response(404, <<"a">>), Response(203, <<"a">>),
      Response(203, <<Q, KEY, Q, ":", Q, "a", Q>>) }
        \cup {Response(StatusOK, b) : b \in Pages}

FewResponses == {Fault, Response(StatusOK, <<Q, KEY, Q, ":", Q, "a", Q>>)}

\* the GET outside the try: a fault leaves the function
probe_fault_propagates(resp) ==
    IF resp.kind = "fault"
    THEN [extracted |-> FALSE, found |-> FALSE, key |-> None,
          raised |-> TRUE, msg |-> {"trying"}]
    ELSE IF resp.status # StatusOK
    THEN [extracted |-> FALSE, found |-> FALSE, key |-> None,
          raised |-> FALSE, msg |-> {"trying"}]
    ELSE LET e == PageExtract[resp.text] IN
         IF Truthy(e.value)
         THEN [extracted |-> TRUE, found |-> TRUE, key |-> e.value,
               raised |-> FALSE, msg |-> {"trying", "found"}]
         ELSE [extracted |-> TRUE, found |-> FALSE, key |-> None,
               raised |-> FALSE, msg |-> {"trying"}]

\* the status test written as "not an error status" (status >= 400)
probe_skips_errors_only(resp) ==
    IF resp.kind = "fault"
    THEN [extracted |-> FALSE, found |-> FALSE, key |-> None,
          raised |-> FALSE, msg |-> {"trying", "fetch_error"}]
    ELSE IF resp.status >= 400
    THEN [extracted |-> FALSE, found |-> FALSE, key |-> None,
          raised |-> FALSE, msg |-> {"trying"}]
    ELSE LET e == PageExtract[resp.text] IN
         IF Truthy(e.value)
         THEN [extracted |-> TRUE, found |-> TRUE, key |-> e.value,
               raised |-> FALSE, msg |-> {"trying", "found"}]
         ELSE [extracted |-> TRUE, found |-> FALSE, key |-> None,
               raised |-> FALSE, msg |-> {"trying"}]

\* the body of the loop for one source: whether the extractor ran, whether
\* the function returns (found) and what, whether an exception leaves it
probe(resp) ==
    IF resp.kind = "fault"
    THEN [extracted |-> FALSE, found |-> FALSE, key |-> None,
          raised |-> FALSE, msg |-> {"trying", "fetch_error"}]
    ELSE IF resp.status # StatusOK
    THEN [extracted |-> FALSE, found |-> FALSE, key |-> None,
          raised |-> FALSE, msg |-> {"trying"}]
    ELSE LET e == PageExtract[resp.text] IN
         IF e.raised
         THEN [extracted |-> TRUE, found |-> FALSE, key |-> None,
               raised |-> FALSE, msg |-> {"trying", "fetch_error"}]
         ELSE IF Truthy(e.value)
         THEN [extracted |-> TRUE, found |-> TRUE, key |-> e.value,
               raised |-> FALSE, msg |-> {"trying", "found"}]
         ELSE [extracted |-> TRUE, found |-> FALSE, key |-> None,
               raised |-> FALSE, msg |-> {"trying"}]

(***************************************************************************)
(* main                                                                    *)
(***************************************************************************)
build_config(p, url, keys, fresh) ==
    [ server |-> [port |-> p, main_url |-> url, secret_key |-> "test"],
      api |-> [ request_timeout |-> 30,
                keys |-> [active |-> keys, disabled |-> <<>>],
                innertube |-> [key |-> fresh],
                oauth |-> [redirect_uri |-> None] ],
      video |-> [ source |-> "innertube", use_cookies |-> FALSE,
                  default_quality |-> "360", default_count |-> 50 ],
      proxy |-> [video_proxy |-> TRUE],
      cache |-> [temp_folder_max_size_mb |-> 5120,
                 cleanup_threshold_mb |-> 100] ]

\* the success line printed before the write is attempted
write_report_success_first(fault) ==
    IF fault THEN {"success", "write_error"} ELSE {"success"}

\* what the try block around the write prints
write_report(fault) == IF fault THEN {"write_error"} ELSE {"success"}

VARIABLES
    pc,           \* where main is: port, url, keys, fetch, assemble, write,
                  \* done, raised (an exception left main)
    port, main_url, active_keys, fresh_key,   \* the locals of main
    portLine,     \* the line ask_for_port read last
    keyLine,      \* the line ask_for_api_keys read
    probes,       \* the GETs issued so far, in order, with what came back
    config,       \* the assembled document
    written,      \* "no", "ok" (file written), "fault" (the write raised)
    printed,      \* the kinds of message printed so far
    html, ext     \* a direct call of extract_innertube_api_key: text, outcome

vars == <<pc, port, main_url, active_keys, fresh_key, portLine, keyLine,
          probes, config, written, printed, html, ext>>

mainVars == <<pc, port, main_url, active_keys, fresh_key, portLine, keyLine,
              probes, config, written, printed>>

NotCalled == [called |-> FALSE, raised |-> FALSE, value |-> None,
              scanned |-> FALSE, parsed |-> FALSE]

\* no line read yet
NoLine == <<"<unread>">>

MainStart ==
    /\ port = 0
    /\ main_url = <<>>
    /\ active_keys = <<>>
    /\ fresh_key = None
    /\ portLine = NoLine
    /\ keyLine = NoLine
    /\ probes = <<>>
    /\ config = None
    /\ written = "no"
    /\ printed = {}

Init ==
    /\ pc = "port"
    /\ MainStart
    /\ html = <<>>
    /\ ext = NotCalled

AskPort(lines) ==
    /\ pc = "port"
    /\ \E line \in lines :
         LET r == port_attempt(line) IN
         /\ portLine' = line
         /\ printed' = printed \cup r.msg
         /\ IF r.ret
            THEN port' = r.port /\ pc' = "url"
            ELSE UNCHANGED <<port, pc>>
    /\ UNCHANGED <<main_url, active_keys, fresh_key, keyLine, probes, config,
                   written, html, ext>>

AskMainUrl(lines) ==
    /\ pc = "url"
    /\ \E line \in lines : main_url' = ask_for_main_url(line)
    /\ pc' = "keys"
    /\ UNCHANGED <<port, active_keys, fresh_key, portLine, keyLine, probes,
                   config, written, printed, html, ext>>

AskKeys(lines) ==
    /\ pc = "keys"
    /\ \E line \in lines :
         LET r == ask_for_api_keys(line) IN
         /\ keyLine' = line
         /\ active_keys' = r.keys
         /\ printed' = printed \cup r.msg
    /\ pc' = "fetch"
    /\ UNCHANGED <<port, main_url, fresh_key, portLine, probes, config,
                   written, html, ext>>

\* one pass of the loop over urls_to_try
FetchStep(responses) ==
    /\ pc = "fetch"
    /\ Len(probes) < Len(urls_to_try)
    /\ \E resp \in responses :
         LET url == urls_to_try[Len(probes) + 1]
             r   == probe(resp)
         IN /\ probes' = Append(probes, [url |-> url, resp |-> resp,
                                         extracted |-> r.extracted])
            /\ printed' = printed \cup r.msg
            /\ IF r.raised THEN pc' = "raised" /\ UNCHANGED fresh_key
               ELSE IF r.found THEN pc' = "assemble" /\ fresh_key' = r.key
               ELSE UNCHANGED <<pc, fresh_key>>
    /\ UNCHANGED <<port, main_url, active_keys, portLine, keyLine, config,
                   written, html, ext>>

\* the loop ran out of sources
FetchExhausted ==
    /\ pc = "fetch"
    /\ Len(probes) = Len(urls_to_try)
    /\ fresh_key' = None
    /\ printed' = printed \cup {"not_found"}
    /\ pc' = "assemble"
    /\ UNCHANGED <<port, main_url, active_keys, portLine, keyLine, probes,
                   config, written, html, ext>>

Assemble ==
    /\ pc = "assemble"
    /\ config' = build_config(port, main_url, active_keys, fresh_key)
    /\ pc' = "write"
    /\ UNCHANGED <<port, main_url, active_keys, fresh_key, portLine, keyLine,
                   probes, written, printed, html, ext>>

\* open config.yml, yaml.dump, report
WriteConfig ==
    /\ pc = "write"
    /\ \E fault \in BOOLEAN :
         /\ written' = IF fault THEN "fault" ELSE "ok"
         /\ printed' = printed \cup write_report(fault)
    /\ pc' = "done"
    /\ UNCHANGED <<port, main_url, active_keys, fresh_key, portLine, keyLine,
                   probes, config, html, ext>>

(***************************************************************************)
(* Input sets.                                                             *)
(***************************************************************************)
RECURSIVE LinesOver(_, _)
LinesOver(alphabet, n) ==
    IF n = 0 THEN {<<>>}
    ELSE LET prev == LinesOver(alphabet, n - 1) IN
         prev \cup {Append(p, c) : p \in prev, c \in alphabet}

MaxPortLen == 2
PortAlphabet == {"0", "1", "-", "+", "_", " ", "a"}
BoundaryPortLines ==
    { <<"6", "5", "5", "3", "5">>, <<"6", "5", "5", "3", "6">>,
      <<"9", "9", "9", "9", "9">>, <<"2", "8", "2", "3">>,
      <<" ", "8", "0", "8", "0", " ">>, <<"1", "_", "0">>,
      <<"+", "1", "0">>, <<"-", "1", "0">>, <<"1", " ", "0">> }
AllPortLines == LinesOver(PortAlphabet, MaxPortLen) \cup BoundaryPortLines

MaxKeyLineLen == 4
KeyAlphabet == {"a", "z", ",", " "}
AllKeyLines ==
    LinesOver(KeyAlphabet, MaxKeyLineLen)
        \cup {<<"a", ",", " ", "z", " ", ",", ",", "a">>}

SomePortLines == { <<>>, <<"8", "0">>, <<"a">>, <<"9", "9", "9", "9", "9">> }
SomeUrlLines == { <<>>, <<" ", "a", " ">> }
SomeKeyLines == { <<>>, <<"a", ",", " ", "z", " ", ",", ",", "a">> }

Next ==
    \/ AskPort(SomePortLines)
    \/ AskMainUrl(SomeUrlLines)
    \/ AskKeys(SomeKeyLines)
    \/ FetchStep(Responses)
    \/ FetchExhausted
    \/ Assemble
    \/ WriteConfig

Spec == Init /\ [][Next]_vars

NextPort ==
    \/ AskPort(AllPortLines)
    \/ AskMainUrl({<<>>})
    \/ AskKeys({<<>>})
    \/ FetchStep(FewResponses)
    \/ FetchExhausted
    \/ Assemble
    \/ WriteConfig

SpecPort == Init /\ [][NextPort]_vars

NextKeys ==
    \/ AskPort({<<>>, <<"0">>})
    \/ AskMainUrl({<<>>})
    \/ AskKeys(AllKeyLines)
    \/ FetchStep(FewResponses)
    \/ FetchExhausted
    \/ Assemble
    \/ WriteConfig

SpecKeys == Init /\ [][NextKeys]_vars

(***************************************************************************)
(* extract_innertube_api_key called on every text of Texts.                *)
(***************************************************************************)
InitExtract ==
    /\ pc = "extract"
    /\ MainStart
    /\ html \in Texts
    /\ ext = NotCalled

ExtractCall ==
    /\ pc = "extract"
    /\ ~ext.called
    /\ LET r == extract_innertube_api_key(html) IN
       ext' = [called |-> TRUE, raised |-> r.raised, value |-> r.value,
               scanned |-> r.scanned, parsed |-> r.parsed]
    /\ UNCHANGED <<mainVars, html>>

SpecExtract == InitExtract /\ [][ExtractCall]_vars

(***************************************************************************)
(* Properties.                                                             *)
(***************************************************************************)
SourceOrder == <<"tv", "root", "embed">>

AfterFetch == {"assemble", "write", "done"}

\* the source answered with status 200 and its page holds a key
YieldsKey(p) ==
    /\ p.resp.kind = "response"
    /\ p.resp.status = 200
    /\ Truthy(extract_innertube_api_key(p.resp.text).value)

\* C1: the sources are fetched in the order tv page, site root, embed page,
\* each at most once; no fetch follows a source that yielded a key; the key
\* returned is the one of the first source that yielded one.
C1_FirstSourceWins ==
    /\ Len(probes) <= Len(SourceOrder)
    /\ \A i \in 1..Len(probes) : probes[i].url = SourceOrder[i]
    /\ \A i \in 1..(Len(probes) - 1) : ~YieldsKey(probes[i])
    /\ pc = "fetch" => \A i \in 1..Len(probes) : ~YieldsKey(probes[i])
    /\ (pc \in AfterFetch /\ Len(probes) > 0 /\ YieldsKey(probes[Len(probes)]))
         => fresh_key =
              extract_innertube_api_key(probes[Len(probes)].resp.text).value

C1_Witness ==
    /\ pc = "assemble"
    /\ Len(probes) = 3
    /\ probes[1].resp.kind = "fault"
    /\ probes[2].resp.kind = "response" /\ probes[2].resp.status = 404
    /\ YieldsKey(probes[3])
    /\ fresh_key = Str(<<"a">>)

\* C2: when no source yields a key, None is returned only after the three
\* sources were each attempted once in order; no exception leaves the
\* function, a fault on one source does not stop the next from being tried.
C2_AllFailReturnsAbsent ==
    /\ pc # "raised"
    /\ (pc \in AfterFetch /\ \A i \in 1..Len(probes) : ~YieldsKey(probes[i]))
         => /\ fresh_key = None
            /\ [i \in 1..Len(probes) |-> probes[i].url] = SourceOrder
    /\ (pc \in AfterFetch /\ fresh_key = None)
         => [i \in 1..Len(probes) |-> probes[i].url] = SourceOrder

C2_Witness ==
    /\ pc = "assemble"
    /\ fresh_key = None
    /\ Len(probes) = 3
    /\ probes[1].resp.kind = "fault"
    /\ probes[2].resp.kind = "response" /\ probes[2].resp.status = 404
    /\ probes[3].resp.kind = "response" /\ probes[3].resp.status = 200
    /\ probes[3].extracted

\* C3: extract_innertube_api_key returns None or a non-empty string.
C3_NoneOrNonEmptyString ==
    ext.called =>
        \/ ext.value = None
        \/ ext.value.t = "str" /\ Len(ext.value.v) > 0

AllWs(t, a, b) == \A x \in a..b : t[x] \in Whitespace

\* where "INNERTUBE_API_KEY" stands
KeyStarts(t) ==
    {i \in 1..(Len(t) - 2) : t[i] = Q /\ t[i + 1] = KEY /\ t[i + 2] = Q}

\* the opening quotes of a value for the name at i: whitespace, colon,
\* whitespace in between
Openings(t, i) ==
    { o \in (i + 4)..Len(t) :
        /\ t[o] = Q
        /\ \E c \in (i + 3)..(o - 1) :
             t[c] = ":" /\ AllWs(t, i + 3, c - 1) /\ AllWs(t, c + 1, o - 1) }

\* the closing quotes of a non-empty value without any double quote
PlainEnds(t, o) ==
    { e \in (o + 2)..Len(t) :
        t[e] = Q /\ \A x \in (o + 1)..(e - 1) : t[x] # Q }

\* the closing quotes, themselves unescaped, of a non-empty value without
\* unescaped double quotes
EscapedEnds(t, o) ==
    { e \in (o + 2)..Len(t) :
        /\ t[e] = Q /\ t[e - 1] # BS
        /\ \A x \in (o + 1)..(e - 1) : t[x] = Q => t[x - 1] = BS }

\* the direct literals of a text as <<start, opening quote, closing quote>>
PlainLiterals(t) ==
    UNION { UNION { {<<i, o, e>> : e \in PlainEnds(t, o)} :
                    o \in Openings(t, i) } : i \in KeyStarts(t) }

EscapedLiterals(t) ==
    UNION { UNION { {<<i, o, e>> : e \in EscapedEnds(t, o)} :
                    o \in Openings(t, i) } : i \in KeyStarts(t) }

HasDirectLiteral(t) == PlainLiterals(t) # {}

DirectLiteralValues(t) ==
    { Str(Slice(t, w[2] + 1, w[3] - 1)) : w \in PlainLiterals(t) }

\* the embedded-object constructs of a text as <<start, {, }>>
Closers(t, b) ==
    { k \in (b + 2)..Len(t) :
        /\ t[k] = "}"
        /\ \E p \in (k + 1)..Len(t) :
             /\ t[p] = ")" /\ AllWs(t, k + 1, p - 1)
             /\ \E q \in (p + 1)..Len(t) :
                  t[q] = ";" /\ AllWs(t, p + 1, q - 1) }

Braces(t, i) ==
    { b \in (i + 2)..Len(t) : t[b] = "{" /\ AllWs(t, i + 2, b - 1) }

Constructs(t) ==
    UNION { UNION { {<<i, b, k>> : k \in Closers(t, b)} :
                    b \in Braces(t, i) } :
            i \in {x \in 1..(Len(t) - 1) : t[x] = YT /\ t[x + 1] = "("} }

HasConstruct(t) == Constructs(t) # {}

\* the spans the embedded-object pattern captures: leftmost start, nearest
\* end
Captured(t) ==
    { w \in Constructs(t) :
        \A w2 \in Constructs(t) :
            w[1] < w2[1] \/ (w[1] = w2[1] /\ w[3] <= w2[3]) }

\* C4: a text with a direct literal "INNERTUBE_API_KEY": "value" (the first
\* of the text, value not empty and without unescaped double quotes) and no
\* embedded-object construct yields exactly value.
C4_DirectLiteralValue ==
    (ext.called /\ ~HasConstruct(html)) =>
        \A w \in EscapedLiterals(html) :
            (\A w2 \in EscapedLiterals(html) : w[1] <= w2[1])
                => ext.value = Str(Slice(html, w[2] + 1, w[3] - 1))

\* C5: with a direct literal and an embedded-object construct both in the
\* text, wherever each stands, the result is a direct literal's value, and
\* the embedded-object strategy runs only when no direct literal was found.
C5_DirectLiteralFirst ==
    ext.called =>
        /\ (HasDirectLiteral(html) /\ HasConstruct(html))
             => ext.value \in DirectLiteralValues(html)
        /\ (ext.scanned \/ ext.parsed) => ~HasDirectLiteral(html)

\* the construct stands before the literal
C5_Witness ==
    /\ ext.called
    /\ ext.value = Str(<<"a">>)
    /\ ~ext.scanned
    /\ \E c \in Constructs(html) :
         /\ json_loads(Slice(html, c[2], c[3])).ok
         /\ \A w \in PlainLiterals(html) : c[3] < w[1]

\* C6: the extractor never raises; a text with neither form yields None, and
\* so does a text whose construct captures a span that is not valid JSON.
C6_NeverRaises ==
    /\ ~ext.raised
    /\ (ext.called /\ ~HasDirectLiteral(html) /\ ~HasConstruct(html))
         => ext.value = None
    /\ (ext.called /\ ~HasDirectLiteral(html))
         => \A c \in Captured(html) :
              ~json_loads(Slice(html, c[2], c[3])).ok => ext.value = None

C6_Witness ==
    /\ ext.called
    /\ ext.parsed
    /\ ext.value = None
    /\ ~HasDirectLiteral(html)
    /\ \E c \in Captured(html) : ~json_loads(Slice(html, c[2], c[3])).ok

IsBlank(line) == \A x \in 1..Len(line) : line[x] \in Whitespace

\* the characters of the line that are not whitespace at either end
Core(line) ==
    LET S == {x \in 1..Len(line) : line[x] \notin Whitespace} IN
    IF S = {} THEN <<>>
    ELSE SubSeq(line, CHOOSE a \in S : \A x \in S : a <= x,
                      CHOOSE b \in S : \A x \in S : x <= b)

AllDigits(s) == s # <<>> /\ \A x \in 1..Len(s) : s[x] \in Digits

RECURSIVE Pow10(_)
Pow10(n) == IF n = 0 THEN 1 ELSE 10 * Pow10(n - 1)

RECURSIVE DecimalFrom(_, _)
DecimalFrom(s, x) ==
    IF x > Len(s) THEN 0
    ELSE DigitVal(s[x]) * Pow10(Len(s) - x) + DecimalFrom(s, x + 1)

\* the line is a decimal numeral, possibly signed, and this is its value
IsNumeral(line) ==
    LET c == Core(line) IN
    \/ AllDigits(c)
    \/ c # <<>> /\ c[1] \in {"+", "-"} /\ AllDigits(Tail(c))

NumeralValue(line) ==
    LET c == Core(line) IN
    IF AllDigits(c) THEN DecimalFrom(c, 1)
    ELSE IF c[1] = "-" THEN 0 - DecimalFrom(Tail(c), 1)
    ELSE DecimalFrom(Tail(c), 1)

\* a character that can be part of no number
NonNumeric(line) == \E x \in 1..Len(line) : line[x] = "a"

\* C7: ask_for_port returns only integers of 1..65535: 2823 for a blank line,
\* the number typed when it is in range; a line that is not a number or is
\* out of range is rejected and the prompt repeats.
C7_PortInRange ==
    /\ pc # "port" => port \in 1..65535
    /\ pc = "port" => port = 0
    /\ IsBlank(portLine) => pc # "port" /\ port = 2823
    /\ (IsNumeral(portLine) /\ NumeralValue(portLine) \in 1..65535)
         => pc # "port" /\ port = NumeralValue(portLine)
    /\ (IsNumeral(portLine) /\ NumeralValue(portLine) \notin 1..65535)
         => pc = "port"
    /\ NonNumeric(portLine) => pc = "port"

C7_Witness ==
    /\ pc = "url"
    /\ port = 65535
    /\ portLine = <<"6", "5", "5", "3", "5">>
    /\ {"port_range", "port_number"} \subseteq printed

\* the entries of the line: the maximal comma-free stretches
IsField(line, a, b) ==
    /\ a <= b + 1
    /\ \A x \in a..b : line[x] # ","
    /\ a = 1 \/ line[a - 1] = ","
    /\ b = Len(line) \/ line[b + 1] = ","

FieldStarts(line) ==
    { a \in 1..(Len(line) + 1) :
        \E b \in 0..Len(line) :
            IsField(line, a, b) /\ ~IsBlank(Slice(line, a, b)) }

FieldAt(line, a) ==
    Slice(line, a, CHOOSE b \in 0..Len(line) : IsField(line, a, b))

\* the n-th smallest element of a set of numbers
Nth(S, n) == CHOOSE a \in S : Cardinality({x \in S : x < a}) = n - 1

\* C8: ask_for_api_keys returns the comma-separated entries of the line,
\* trimmed, the blank ones dropped, in order, duplicates kept; the list goes
\* unchanged into the document.
C8_ApiKeys ==
    /\ pc \notin {"port", "url", "keys"} =>
         /\ Len(active_keys) = Cardinality(FieldStarts(keyLine))
         /\ \A n \in 1..Len(active_keys) :
              active_keys[n] = Core(FieldAt(keyLine, Nth(FieldStarts(keyLine), n)))
         /\ (\A x \in 1..Len(keyLine) : keyLine[x] \in Whitespace \cup {","})
              => active_keys = <<>>
    /\ config # None => config.api.keys.active = active_keys

C8_Witness ==
    /\ pc = "done"
    /\ keyLine = <<"a", ",", " ", "z", " ", ",", ",", "a">>
    /\ config.api.keys.active = << <<"a">>, <<"z">>, <<"a">> >>

\* C9: whatever the probe gave, the document is assembled and the write
\* attempted; the success line is printed exactly when the write succeeded;
\* a write fault is reported and no exception leaves main; with all sources
\* exhausted the document's innertube key is null.
C9_OnlyWriteFaultIsFatal ==
    /\ pc # "raised"
    /\ pc \in {"write", "done"} =>
         /\ config # None
         /\ config.api.innertube.key = fresh_key
         /\ (\A i \in 1..Len(probes) : ~YieldsKey(probes[i]))
              => config.api.innertube.key = None
    /\ pc = "done" => written \in {"ok", "fault"}
    /\ pc # "done" => written = "no" /\ "success" \notin printed
    /\ pc = "done" => ("success" \in printed <=> written = "ok")
    /\ written = "fault" => "write_error" \in printed

C9_Witness ==
    /\ pc = "done"
    /\ written = "fault"
    /\ "write_error" \in printed
    /\ "not_found" \in printed
    /\ config.api.innertube.key = None

\* a 2xx status
IsSuccessStatus(st) == st \in 200..299

\* C10 as stated: the extractor runs on every response with a success status.
C10_SuccessStatusExtracted ==
    \A i \in 1..Len(probes) :
        (probes[i].resp.kind = "response" /\ IsSuccessStatus(probes[i].resp.status))
            => probes[i].extracted

\* C10 amended: the extractor runs on every response with status 200, before
\* the next source is fetched; a source is passed over without extraction
\* only when its GET raised or its status is not 200.
C10_Status200Extracted ==
    \A i \in 1..Len(probes) :
        probes[i].extracted <=>
            (probes[i].resp.kind = "response" /\ probes[i].resp.status = 200)

C10_Witness ==
    /\ Len(probes) = 2
    /\ probes[1].resp.kind = "response" /\ probes[1].resp.status = 200
    /\ probes[1].extracted
    /\ ~YieldsKey(probes[1])
====
